---- MODULE Spec2Model ----
(***************************************************************************)
(* A model of the Sleeper fantasy-football analyzer:                       *)
(*   - the table builders of SleeperLeagueAnalyzer (ff_league_analyzer.py) *)
(*     as operators over raw payloads, computed the way pandas computes    *)
(*     them (row order kept, duplicates kept, int8 columns wrapped);       *)
(*   - the SleeperLeague gateway (ff_league.py): lazy pulls, refresh and   *)
(*     the daily player-catalog file.                                      *)
(***************************************************************************)
EXTENDS Integers, Sequences, FiniteSets, TLC

VARIABLES
    pc,         \* which operation of the builder pipeline has run
    payload,    \* the raw gateway payload handed to a table builder
    table,      \* what the builder produced (rows, or a raised error)
    upstream,   \* what the Sleeper API answers at this moment
    today,      \* date.today()
    files,      \* the sleeper_players_<date>.pickle files of the data folder
    league,     \* the SleeperLeague of the process-wide analyzer, if any
    watched,    \* the entity whose accesses are followed
    accessed,   \* whether get_data asked for it since construction
    last,       \* the last operation: its upstream requests, whether it
                \* raised, the names handed to refresh_data
    dayLog      \* catalog accesses and the fetches they issued, this day

builderVars == <<pc, payload, table>>
gatewayVars == <<upstream, today, files, league, watched, accessed, last, dayLog>>
vars == <<pc, payload, table, upstream, today, files, league, watched, accessed,
          last, dayLog>>

-----------------------------------------------------------------------------
(* Bounds of the model *)

NumTeams == 3           \* teams of the league in the matchups payload
NumRosters == 2         \* rosters of the league in the rosters payload
MaxStarters == 2        \* longest starters list of a roster
MaxSlots == 2           \* longest starting-position list of a league
MaxLen == 2             \* longest ordinary roster list in the teams payload
MaxWeek == 1            \* largest current week ('leg') of the league
MaxDay == 2             \* calendar days the process lives through

\* weeks of the matchups payload and the points a team can score in a week
BuildWeeks == 1..2
PointValues == 0..1

-----------------------------------------------------------------------------
(* Generic helpers *)

RECURSIVE FlatMap(_, _)
\* concatenation of F(s[1]), F(s[2]), ... (row order kept, as pandas does)
FlatMap(F(_), s) ==
    IF s = <<>> THEN <<>> ELSE F(Head(s)) \o FlatMap(F, Tail(s))

Range(s) == {s[i] : i \in DOMAIN s}

\* numpy's astype(np.int8): two's-complement wrap to 8 bits
Int8(x) == ((x + 128) % 256) - 128

-----------------------------------------------------------------------------
(* The SleeperLeague gateway *)

Entities == {"league", "players", "rosters", "users", "matchups"}
\* the upstream data before and after a change
Revs == {1, 2}
Days == 1..MaxDay

\* dict(): the value of a payload field that was never pulled
EmptyDict == 0

(* What the Sleeper API returns: the payload of an entity is named by the   *)
(* upstream revision it was read at; league info carries settings.leg.      *)
LeaguePayload(up) == [rev |-> up.rev, leg |-> up.leg]
MatchupsPayload(up, week) == [week |-> week, rev |-> up.rev]

NoFile == [kind |-> "none", rev |-> 0]
PickleFile(rev) == [kind |-> "pickle", rev |-> rev]

NoLeague ==
    [alive |-> FALSE, league_info |-> [rev |-> 0, leg |-> 0],
     name |-> 0, season |-> 0, current_week |-> 0,
     players |-> EmptyDict, rosters |-> EmptyDict, users |-> EmptyDict,
     matchups |-> <<>>]

NewDay == [accesses |-> 0, fetches |-> 0, first |-> "none"]

NoOp == [fetched |-> {}, raised |-> FALSE, data_to_refresh |-> {}]

\* what a step asked of the upstream API, and whether it raised
Op(fetched, raised) ==
    [fetched |-> fetched, raised |-> raised, data_to_refresh |-> {}]

\* the builder specifications leave the gateway untouched
GatewayIdle ==
    /\ upstream = [rev |-> 1, leg |-> 0]
    /\ today = 1
    /\ files = [d \in Days |-> NoFile]
    /\ league = NoLeague
    /\ watched = "none"
    /\ accessed = FALSE
    /\ last = NoOp
    /\ dayLog = NewDay

\* _pull_league_data: league_info, name, season and current_week
pull_league_data(lg, up) ==
    [lg EXCEPT !.league_info = LeaguePayload(up),
               !.name = up.rev,
               !.season = up.rev,
               !.current_week = up.leg]

\* _pull_players
pull_players(lg, up) == [lg EXCEPT !.players = up.rev]

\* _pull_rosters
pull_rosters(lg, up) == [lg EXCEPT !.rosters = up.rev]

\* _pull_users
pull_users(lg, up) == [lg EXCEPT !.users = up.rev]

\* the weeks _pull_matchups asks for: range(1, self.current_week + 1)
MatchupWeeks(lg) == 1..lg.current_week

\* _pull_matchups: dict(zip(weeks, matchups))
pull_matchups(lg, up) ==
    [lg EXCEPT !.matchups = [w \in MatchupWeeks(lg) |-> MatchupsPayload(up, w)]]

\* the upstream requests a pull of entity e issues
Requests(e, lg) ==
    IF e = "matchups" THEN {<<"matchups", w>> : w \in MatchupWeeks(lg)}
    ELSE {<<e, 0>>}

\* faulty variant: today's file unlinked with the others
clear_all_player_files(fs, active) == [d \in DOMAIN fs |-> NoFile]

\* faulty variant: the files of other dates left in place
clear_empty_player_file(fs, active) ==
    [d \in DOMAIN fs |->
        IF d = active /\ fs[d].kind = "empty" THEN NoFile ELSE fs[d]]

\* _clear_old_player_files: every file of another date is unlinked, and
\* today's file when its size is 0
clear_old_player_files(fs, active) ==
    [d \in DOMAIN fs |->
        IF d # active THEN NoFile
        ELSE IF fs[d].kind = "empty" THEN NoFile
        ELSE fs[d]]

(* Bookkeeping of the checks, not program state. While the laziness of the  *)
(* gateway is exercised, the accesses of the watched entity are recorded;   *)
(* while the catalog cache is exercised, the day's catalog accesses and the *)
(* fetches they issued (both counted up to 2), and whether the day's first  *)
(* access found the in-memory catalog empty.                                *)
Bump(n) == IF n < 2 THEN n + 1 ELSE 2

NoteAccess(data) ==
    accessed' = IF data = watched THEN TRUE ELSE accessed

NoteCatalogAccess(fetches) ==
    dayLog' = IF pc = "cache"
              THEN [accesses |-> Bump(dayLog.accesses),
                    fetches |-> IF fetches > 0 THEN Bump(dayLog.fetches)
                                ELSE dayLog.fetches,
                    first |-> IF dayLog.accesses > 0 THEN dayLog.first
                              ELSE IF league.players = EmptyDict THEN "cold"
                              ELSE "warm"]
              ELSE dayLog

\* SleeperLeagueAnalyzer(league_id): __post_init__ pulls the league data
NewSession ==
    /\ league' = pull_league_data([NoLeague EXCEPT !.alive = TRUE], upstream)
    /\ accessed' = FALSE
    /\ last' = Op(Requests("league", league), FALSE)
    /\ UNCHANGED <<builderVars, upstream, today, files, watched, dayLog>>

\* update_league_analyzer(''): league_analyzer = None
CloseSession ==
    /\ league.alive
    /\ league' = NoLeague
    /\ accessed' = FALSE
    /\ last' = NoOp
    /\ UNCHANGED <<builderVars, upstream, today, files, watched, dayLog>>

\* get_data('league')
GetLeague ==
    /\ last' = NoOp
    /\ UNCHANGED <<league, files, dayLog>>

\* get_data('players'): _get_players
GetPlayers ==
    IF league.players # EmptyDict
    THEN /\ last' = NoOp
         /\ NoteCatalogAccess(0)
         /\ UNCHANGED <<league, files>>
    ELSE LET cleared == clear_old_player_files(files, today)
         IN  /\ files' = IF cleared[today].kind = "none"
                         THEN [cleared EXCEPT ![today] = PickleFile(upstream.rev)]
                         ELSE cleared
             /\ CASE cleared[today].kind = "pickle" ->
                        \* pickle.load of today's file
                        /\ league' = [league EXCEPT !.players = cleared[today].rev]
                        /\ last' = NoOp
                        /\ NoteCatalogAccess(0)
                  [] cleared[today].kind = "partial" ->
                        \* pickle.load raises on a truncated file
                        /\ league' = league
                        /\ last' = Op({}, TRUE)
                        /\ NoteCatalogAccess(0)
                  [] cleared[today].kind = "none" ->
                        \* no file of today: pull, then dump
                        /\ league' = pull_players(league, upstream)
                        /\ last' = Op(Requests("players", league), FALSE)
                        /\ NoteCatalogAccess(1)

\* faulty variant: the rosters pulled at every access
GetRostersEveryTime ==
    /\ league' = pull_rosters(league, upstream)
    /\ last' = Op(Requests("rosters", league), FALSE)
    /\ UNCHANGED <<files, dayLog>>

\* get_data('rosters')
GetRosters ==
    /\ IF league.rosters = EmptyDict
       THEN /\ league' = pull_rosters(league, upstream)
            /\ last' = Op(Requests("rosters", league), FALSE)
       ELSE /\ last' = NoOp
            /\ UNCHANGED league
    /\ UNCHANGED <<files, dayLog>>

\* get_data('users')
GetUsers ==
    /\ IF league.users = EmptyDict
       THEN /\ league' = pull_users(league, upstream)
            /\ last' = Op(Requests("users", league), FALSE)
       ELSE /\ last' = NoOp
            /\ UNCHANGED league
    /\ UNCHANGED <<files, dayLog>>

\* get_data('matchups')
GetMatchups ==
    /\ IF league.matchups = <<>>
       THEN /\ league' = pull_matchups(league, upstream)
            /\ last' = Op(Requests("matchups", league), FALSE)
       ELSE /\ last' = NoOp
            /\ UNCHANGED league
    /\ UNCHANGED <<files, dayLog>>

\* get_data(data)
GetData(data) ==
    /\ league.alive
    /\ NoteAccess(data)
    /\ CASE data = "league" -> GetLeague
         [] data = "players" -> GetPlayers
         [] data = "rosters" -> GetRosters
         [] data = "users" -> GetUsers
         [] data = "matchups" -> GetMatchups
    /\ UNCHANGED <<builderVars, upstream, today, watched>>

\* what get_data(data) returns once it has run
Returned(lg, data) ==
    CASE data = "league" -> lg.league_info
      [] data = "players" -> lg.players
      [] data = "rosters" -> lg.rosters
      [] data = "users" -> lg.users
      [] data = "matchups" -> lg.matchups

\* faulty variant: the users test pulls the rosters
RefreshedWrongPull(lg, up, data_to_refresh) ==
    LET l1 == IF "league" \in data_to_refresh THEN pull_league_data(lg, up) ELSE lg
        l2 == IF "players" \in data_to_refresh THEN pull_players(l1, up) ELSE l1
        l3 == IF "rosters" \in data_to_refresh THEN pull_rosters(l2, up) ELSE l2
        l4 == IF "users" \in data_to_refresh THEN pull_rosters(l3, up) ELSE l3
    IN  [lg |-> IF "matchups" \in data_to_refresh THEN pull_matchups(l4, up) ELSE l4,
         fetched |-> UNION {Requests(e, l4) : e \in data_to_refresh}]

\* faulty variant: the matchups are pulled before the league info
RefreshedMatchupsFirst(lg, up, data_to_refresh) ==
    LET l0 == IF "matchups" \in data_to_refresh THEN pull_matchups(lg, up) ELSE lg
        l1 == IF "league" \in data_to_refresh THEN pull_league_data(l0, up) ELSE l0
        l2 == IF "players" \in data_to_refresh THEN pull_players(l1, up) ELSE l1
        l3 == IF "rosters" \in data_to_refresh THEN pull_rosters(l2, up) ELSE l2
    IN  [lg |-> IF "users" \in data_to_refresh THEN pull_users(l3, up) ELSE l3,
         fetched |-> UNION {Requests(e, lg) : e \in data_to_refresh}]

\* refresh_data: the five tests in the order of the code
Refreshed(lg, up, data_to_refresh) ==
    LET l1 == IF "league" \in data_to_refresh THEN pull_league_data(lg, up) ELSE lg
        l2 == IF "players" \in data_to_refresh THEN pull_players(l1, up) ELSE l1
        l3 == IF "rosters" \in data_to_refresh THEN pull_rosters(l2, up) ELSE l2
        l4 == IF "users" \in data_to_refresh THEN pull_users(l3, up) ELSE l3
    IN  [lg |-> IF "matchups" \in data_to_refresh THEN pull_matchups(l4, up) ELSE l4,
         fetched |-> UNION {Requests(e, l4) : e \in data_to_refresh}]

RefreshData(data_to_refresh) ==
    /\ league.alive
    /\ LET done == Refreshed(league, upstream, data_to_refresh)
       IN  /\ league' = done.lg
           /\ last' = [Op(done.fetched, FALSE) EXCEPT
                          !.data_to_refresh = data_to_refresh]
    /\ UNCHANGED <<builderVars, upstream, today, files, watched, accessed, dayLog>>

\* the league moves on at Sleeper: new data, possibly another week
UpstreamChange ==
    /\ upstream' \in [rev : Revs \ {upstream.rev}, leg : 0..MaxWeek]
    /\ last' = NoOp
    /\ UNCHANGED <<builderVars, today, files, league, watched, accessed, dayLog>>

\* midnight
NextDay ==
    /\ today < MaxDay
    /\ today' = today + 1
    /\ dayLog' = NewDay
    /\ last' = NoOp
    /\ UNCHANGED <<builderVars, upstream, files, league, watched, accessed>>

\* the process is killed between open(file, 'wb') and the end of pickle.dump:
\* the catalog was pulled, the file of today is left empty or truncated
InterruptedDump ==
    /\ league.alive
    /\ league.players = EmptyDict
    /\ clear_old_player_files(files, today)[today].kind = "none"
    /\ \E left \in {"empty", "partial"} :
          files' = [clear_old_player_files(files, today) EXCEPT
                        ![today] = [kind |-> left, rev |-> 0]]
    /\ league' = NoLeague
    /\ accessed' = FALSE
    /\ last' = Op(Requests("players", league), FALSE)
    /\ UNCHANGED <<builderVars, upstream, today, watched, dayLog>>

InitGateway(mode, watch) ==
    /\ pc = mode
    /\ payload = <<>>
    /\ table = <<>>
    /\ upstream \in [rev : Revs, leg : 0..MaxWeek]
    /\ today = 1
    /\ files = [d \in Days |-> NoFile]
    /\ league = NoLeague
    /\ watched \in watch
    /\ accessed = FALSE
    /\ last = NoOp
    /\ dayLog = NewDay

(* The gateway within one calendar day: every entity, every refresh. *)
Init == InitGateway("gateway", {"none"})

Next ==
    \/ NewSession
    \/ CloseSession
    \/ \E data \in Entities : GetData(data)
    \/ \E data_to_refresh \in SUBSET Entities : RefreshData(data_to_refresh)
    \/ UpstreamChange

Spec == Init /\ [][Next]_vars

(* The same, following the accesses of one entity; refreshes name one entity. *)
InitLazy == InitGateway("lazy", Entities)

NextLazy ==
    \/ NewSession
    \/ CloseSession
    \/ \E data \in Entities : GetData(data)
    \/ \E data \in Entities : RefreshData({data})
    \/ UpstreamChange

SpecLazy == InitLazy /\ [][NextLazy]_vars

(* The player catalog and its daily file, over the days: catalog accesses   *)
(* by the sessions the process creates one after the other.                 *)
InitCache == InitGateway("cache", {"none"})

NextCache ==
    \/ NewSession
    \/ CloseSession
    \/ GetData("players")
    \/ UpstreamChange
    \/ NextDay

SpecCache == InitCache /\ [][NextCache]_vars

(* The same, with processes killed while they write the file. *)
NextCrash ==
    \/ NextCache
    \/ InterruptedDump

SpecCrash == InitCache /\ [][NextCrash]_vars

-----------------------------------------------------------------------------
(* build_matchups_df *)

\* JSON null in the matchup_id field (Sleeper's own ids are positive)
NoId == 0
\* fillna(-1): the bye sentinel
ByeSentinel == -1

\* .assign(week = week, matchup_id = df.matchup_id.fillna(-1).astype(np.int8))
WeekRows(week, week_dict) ==
    [i \in DOMAIN week_dict |->
        [week       |-> week,
         roster_id  |-> week_dict[i].roster_id,
         matchup_id |-> IF week_dict[i].matchup_id = NoId
                        THEN ByeSentinel
                        ELSE Int8(week_dict[i].matchup_id),
         points     |-> week_dict[i].points]]

RECURSIVE ConcatWeeks(_, _)
\* pd.concat(df_list): the weeks of the mapping in key order (from week w up)
ConcatWeeks(matchups_dict, w) ==
    IF w \notin DOMAIN matchups_dict THEN <<>>
    ELSE WeekRows(w, matchups_dict[w]) \o ConcatWeeks(matchups_dict, w + 1)

\* faulty variant: the self-merge keyed on the matchup id alone
SameMatchupAnyWeek(l, r) == l.matchup_id = r.matchup_id

\* the join key of the self-merge: on=['week', 'matchup_id']
SameMatchup(l, r) == l.week = r.week /\ l.matchup_id = r.matchup_id

\* .merge(df_scores[[week, matchup_id, roster_id, points]], how='left') and the
\* rename to opponent_id / opp_points: one row per matching right row
MergeOpponents(df_scores) ==
    LET Matches(l) ==
            LET hits == SelectSeq(df_scores, LAMBDA r : SameMatchup(l, r))
            IN  [j \in DOMAIN hits |->
                    [week        |-> l.week,
                     roster_id   |-> l.roster_id,
                     matchup_id  |-> l.matchup_id,
                     points      |-> l.points,
                     opponent_id |-> hits[j].roster_id,
                     opp_points  |-> hits[j].points]]
    IN  FlatMap(Matches, df_scores)

\* .query('roster_id != opponent_id')
DropSelf(df) == SelectSeq(df, LAMBDA row : row.roster_id # row.opponent_id)

\* faulty variant: the points compared before the bye sentinel is looked at
MatchResultByeLast(row) ==
    IF row.points > row.opp_points THEN "Win"
    ELSE IF row.points = row.opp_points THEN "Tie"
    ELSE IF row.points < row.opp_points THEN "Loss"
    ELSE "No matchup"

\* np.select: the first condition that holds decides
MatchResult(row) ==
    IF row.matchup_id = ByeSentinel THEN "No matchup"
    ELSE IF row.points > row.opp_points THEN "Win"
    ELSE IF row.points = row.opp_points THEN "Tie"
    ELSE IF row.points < row.opp_points THEN "Loss"
    ELSE "0"

\* .assign(result = ..., opponent_id = np.where(...), opp_points = np.where(...))
AssignResult(df) ==
    [i \in DOMAIN df |->
        [week        |-> df[i].week,
         roster_id   |-> df[i].roster_id,
         matchup_id  |-> df[i].matchup_id,
         points      |-> df[i].points,
         result      |-> MatchResult(df[i]),
         opponent_id |-> IF df[i].matchup_id = ByeSentinel
                         THEN -1 ELSE df[i].opponent_id,
         opp_points  |-> IF df[i].matchup_id = ByeSentinel
                         THEN 0 ELSE df[i].opp_points]]

build_matchups_df(matchups_dict) ==
    AssignResult(DropSelf(MergeOpponents(ConcatWeeks(matchups_dict, 1))))

(* The raw payloads of a league of NumTeams teams: every team has one entry  *)
(* per week, and Sleeper gives a non-null matchup id to exactly two teams.   *)
Teams == 1..NumTeams
MatchupIds == 1..(NumTeams \div 2)

PairedIds(ids) ==
    \A m \in MatchupIds : Cardinality({t \in Teams : ids[t] = m}) \in {0, 2}

WeekPayloads ==
    {[t \in Teams |-> [roster_id |-> t, matchup_id |-> ids[t], points |-> pts[t]]] :
        ids \in {f \in [Teams -> MatchupIds \cup {NoId}] : PairedIds(f)},
        pts \in [Teams -> PointValues]}

InitMatchups ==
    /\ GatewayIdle
    /\ pc = "matchups"
    /\ payload \in [BuildWeeks -> WeekPayloads]
    /\ table = <<>>

BuildMatchups ==
    /\ pc = "matchups"
    /\ pc' = "matchups_built"
    /\ table' = build_matchups_df(payload)
    /\ UNCHANGED <<payload, gatewayVars>>

NextMatchups == BuildMatchups

SpecMatchups == InitMatchups /\ [][NextMatchups]_vars

-----------------------------------------------------------------------------
(* Claims on build_matchups_df *)

RawEntries(w) == Range(payload[w])

RowsOf(w, m) ==
    {i \in DOMAIN table : table[i].week = w /\ table[i].matchup_id = m}

\* C1: in the Matchups table every (week, non-bye matchup id) of the payload is
\* carried by exactly two rows, and each of the two names the other row's
\* roster_id and points as its opponent_id and opp_points.
C1_SymmetricPairs ==
    pc = "matchups_built" =>
        \A w \in DOMAIN payload :
            \A e \in RawEntries(w) :
                e.matchup_id # NoId =>
                    LET rows == RowsOf(w, Int8(e.matchup_id))
                    IN  /\ Cardinality(rows) = 2
                        /\ \A i \in rows : \A j \in rows \ {i} :
                              /\ table[i].opponent_id = table[j].roster_id
                              /\ table[i].opp_points = table[j].points

\* the same matchup id is used in both weeks, with a winner in one of them
C1_Witness ==
    /\ pc = "matchups_built"
    /\ \E i \in DOMAIN table : \E j \in DOMAIN table :
          /\ table[i].matchup_id # ByeSentinel
          /\ table[i].matchup_id = table[j].matchup_id
          /\ table[i].week # table[j].week
          /\ table[i].points > table[i].opp_points

\* C2: every raw team entry without a matchup id has its row in the Matchups
\* table, and that row reads "No matchup", opponent -1, opponent points 0
\* (the claim as stated: one bye team or several).
C2_ByeRowKept ==
    pc = "matchups_built" =>
        \A w \in DOMAIN payload :
            \A e \in RawEntries(w) :
                e.matchup_id = NoId =>
                    /\ \E i \in DOMAIN table :
                          table[i].week = w /\ table[i].roster_id = e.roster_id
                    /\ \A i \in DOMAIN table :
                          (table[i].week = w /\ table[i].roster_id = e.roster_id) =>
                              /\ table[i].result = "No matchup"
                              /\ table[i].opponent_id = -1
                              /\ table[i].opp_points = 0

\* C3: a row's result is "No matchup" for the bye sentinel whatever the points,
\* and otherwise Win / Tie / Loss by comparing its points with the points of
\* the other team of the same (week, matchup id).
C3_ResultRule ==
    pc = "matchups_built" =>
        \A i \in DOMAIN table :
            LET row == table[i]
                others == {e \in RawEntries(row.week) :
                              /\ e.roster_id # row.roster_id
                              /\ e.matchup_id # NoId
                              /\ Int8(e.matchup_id) = row.matchup_id}
            IN  IF row.matchup_id = -1
                THEN row.result = "No matchup"
                ELSE /\ Cardinality(others) = 1
                     /\ \A e \in others :
                           /\ row.opp_points = e.points
                           /\ row.points > e.points => row.result = "Win"
                           /\ row.points = e.points => row.result = "Tie"
                           /\ row.points < e.points => row.result = "Loss"

\* a bye row that outscored another bye team, and a lost matchup in the other week
C3_Witness ==
    /\ pc = "matchups_built"
    /\ \E i \in DOMAIN table :
          /\ table[i].result = "No matchup"
          /\ \E e \in RawEntries(table[i].week) :
                e.matchup_id = NoId /\ e.points < table[i].points
    /\ \E i \in DOMAIN table : table[i].result = "Loss"

-----------------------------------------------------------------------------
(* build_rosters_df *)

\* pandas' missing value in an exploded column, and Sleeper's placeholder
\* player id "0" for an empty starting slot
NaN == -1
Placeholder == 0

\* .explode(column): one row per list element, one NaN row for an empty list
Explode(list) == IF list = <<>> THEN <<NaN>> ELSE list

\* pd.DataFrame([(owner_id, starters) ...]).explode('player_id')
StarterRows(rosters_dict) ==
    LET Rows(roster) ==
            LET ids == Explode(roster.starters)
            IN  [k \in DOMAIN ids |->
                    [owner_id |-> roster.owner_id, player_id |-> ids[k]]]
    IN  FlatMap(Rows, rosters_dict)

RECURSIVE Repeat(_, _)
\* list * n
Repeat(list, n) == IF n <= 0 THEN <<>> ELSE list \o Repeat(list, n - 1)

\* faulty variant: the labels handed out from the second position on
StartingPosLabelsShifted(starting_positions, rosters_dict) ==
    LET n == Cardinality({rosters_dict[i].owner_id : i \in DOMAIN rosters_dict} \ {NaN})
    IN  Repeat(Tail(starting_positions) \o <<Head(starting_positions)>>, n)

\* self.league.starting_positions * df.owner_id.nunique()
StartingPosLabels(starting_positions, rosters_dict) ==
    LET n == Cardinality({rosters_dict[i].owner_id : i \in DOMAIN rosters_dict} \ {NaN})
    IN  Repeat(starting_positions, n)

\* _get_roster_spot
get_roster_spot(player_id, roster) ==
    IF player_id \in Range(roster.starters) THEN "starter"
    ELSE IF player_id \in Range(roster.taxi) THEN "taxi"
    ELSE IF player_id \in Range(roster.reserve) THEN "ir"
    ELSE "bench"

\* the left merge of the exploded players with df_starters on
\* (owner_id, player_id), starting_pos filled with 'NA', roster_spot assigned
RosterRows(rosters_dict, df_starters) ==
    LET Rows(roster) ==
            LET OneRow(pid, pos) ==
                    [owner_id     |-> roster.owner_id,
                     roster_id    |-> roster.roster_id,
                     player_id    |-> pid,
                     roster_spot  |-> get_roster_spot(pid, roster),
                     starting_pos |-> pos]
                Merged(pid) ==
                    LET hits == SelectSeq(df_starters, LAMBDA st :
                                    st.owner_id = roster.owner_id /\ st.player_id = pid)
                    IN  IF hits = <<>> THEN <<OneRow(pid, "NA")>>
                        ELSE [j \in DOMAIN hits |-> OneRow(pid, hits[j].starting_pos)]
            IN  FlatMap(Merged, Explode(roster.players))
    IN  FlatMap(Rows, rosters_dict)

\* assign() raises ValueError when the label list and the exploded starters
\* differ in length; astype({'owner_id': np.int64}) raises on a missing owner
build_rosters_df(rosters_dict, starting_positions) ==
    LET starters == StarterRows(rosters_dict)
        labels == StartingPosLabels(starting_positions, rosters_dict)
    IN  IF Len(labels) # Len(starters)
        THEN [raised |-> TRUE, rows |-> <<>>]
        ELSE IF \E i \in DOMAIN rosters_dict : rosters_dict[i].owner_id = NaN
        THEN [raised |-> TRUE, rows |-> <<>>]
        ELSE [raised |-> FALSE,
              rows |-> RosterRows(rosters_dict,
                          [k \in DOMAIN starters |->
                              [owner_id     |-> starters[k].owner_id,
                               player_id    |-> starters[k].player_id,
                               starting_pos |-> labels[k]]])]

(* The rosters payloads: roster t of owner t holds the players 2t-1 and 2t;   *)
(* its starters list is any list of at most MaxStarters of them and of        *)
(* placeholders (empty before the season: _pull_rosters turns a missing list  *)
(* into []), and one of its players may sit on the taxi squad or on reserve.  *)
Rosters == 1..NumRosters
PlayersOf(t) == <<2 * t - 1, 2 * t>>
SlotLabels == {"QB", "RB"}

SeqsUpTo(S, n) == UNION {[1..k -> S] : k \in 0..n}

StartersLists(t) ==
    {st \in SeqsUpTo(Range(PlayersOf(t)) \cup {Placeholder}, MaxStarters) :
        \A i \in DOMAIN st : \A j \in DOMAIN st :
            (i # j /\ st[i] = st[j]) => st[i] = Placeholder}

BenchLayouts == {"none", "taxi", "reserve"}

RosterPayloads ==
    {[t \in Rosters |->
        [owner_id  |-> t,
         roster_id |-> t,
         players   |-> PlayersOf(t),
         starters  |-> st[t],
         taxi      |-> IF layout = "taxi" THEN <<2 * t>> ELSE <<>>,
         reserve   |-> IF layout = "reserve" THEN <<2 * t>> ELSE <<>>]] :
        st \in {f \in [Rosters -> UNION {StartersLists(t) : t \in Rosters}] :
                  \A t \in Rosters : f[t] \in StartersLists(t)},
        layout \in BenchLayouts}

InitRosters ==
    /\ GatewayIdle
    /\ pc = "rosters"
    /\ payload \in [rosters : RosterPayloads,
                    starting_positions : SeqsUpTo(SlotLabels, MaxSlots) \ {<<>>}]
    /\ table = <<>>

BuildRosters ==
    /\ pc = "rosters"
    /\ pc' = "rosters_built"
    /\ table' = build_rosters_df(payload.rosters, payload.starting_positions)
    /\ UNCHANGED <<payload, gatewayVars>>

NextRosters == BuildRosters

SpecRosters == InitRosters /\ [][NextRosters]_vars

-----------------------------------------------------------------------------
(* Claims on build_rosters_df *)

\* the rows that give player pid of owner o a starting-slot label
LabelledRows(o, pid) ==
    {i \in DOMAIN table.rows :
        /\ table.rows[i].owner_id = o
        /\ table.rows[i].player_id = pid
        /\ table.rows[i].starting_pos # "NA"}

\* C4: the Rosters table is built, and every rostered player found in its
\* team's starters list has exactly one labelled row, labelled with the entry
\* of the league's starting positions at the player's index in that list
\* (the claim as stated: for any lengths of the starters lists).
C4_LabelByIndex ==
    pc = "rosters_built" =>
        \A t \in DOMAIN payload.rosters :
            LET roster == payload.rosters[t]
            IN  \A k \in DOMAIN roster.starters :
                    roster.starters[k] \in Range(roster.players) =>
                        LET rows == LabelledRows(roster.owner_id, roster.starters[k])
                        IN  /\ ~table.raised
                            /\ Cardinality(rows) = 1
                            /\ k \in DOMAIN payload.starting_positions
                            /\ \A i \in rows : table.rows[i].starting_pos
                                                 = payload.starting_positions[k]

\* When every roster's starters list is as long as the league's
\* starting-position list, the table is built and labelled by index.
FullLineupsLabelledByIndex ==
    (/\ pc = "rosters_built"
     /\ \A t \in DOMAIN payload.rosters :
           Len(payload.rosters[t].starters) = Len(payload.starting_positions))
    => C4_LabelByIndex

-----------------------------------------------------------------------------
(* build_teams_df: the roster counts *)

\* faulty variant: the reserve list left out of the bench count
TeamCountsNoReserve(n_players, n_starters, n_taxi, n_reserve) ==
    LET rostered == Int8(n_players)
        starters == Int8(n_starters)
        taxi == Int8(n_taxi)
        ir == Int8(n_reserve)
        bench == Int8(rostered - starters - taxi)
    IN  [rostered |-> rostered, starters |-> starters, taxi |-> taxi, ir |-> ir,
         bench |-> bench,
         roster_locked |-> IF Int8(starters + bench) > 40 THEN 1 ELSE 0]

\* rostered, starters, taxi, ir = the list lengths .astype(np.int8);
\* bench = (rostered - starters - taxi - ir).astype(np.int8), the difference
\* itself taken over int8 columns; roster_locked = (starters + bench > 40)
TeamCounts(n_players, n_starters, n_taxi, n_reserve) ==
    LET rostered == Int8(n_players)
        starters == Int8(n_starters)
        taxi == Int8(n_taxi)
        ir == Int8(n_reserve)
        bench == Int8(rostered - starters - taxi - ir)
    IN  [rostered |-> rostered, starters |-> starters, taxi |-> taxi, ir |-> ir,
         bench |-> bench,
         roster_locked |-> IF Int8(starters + bench) > 40 THEN 1 ELSE 0]

\* one Teams row per roster of the payload
build_teams_df(rosters_dict) ==
    [i \in DOMAIN rosters_dict |->
        TeamCounts(rosters_dict[i].players, rosters_dict[i].starters,
                   rosters_dict[i].taxi, rosters_dict[i].reserve)]

(* The teams payloads give each list by its length: the ordinary lengths up   *)
(* to MaxLen, and the lengths around the ends of the int8 range.              *)
ListLengths == (0..MaxLen) \cup {127, 128, 255, 256}

InitTeams ==
    /\ GatewayIdle
    /\ pc = "teams"
    /\ payload \in [1..1 -> [players : ListLengths, starters : ListLengths,
                             taxi : ListLengths, reserve : ListLengths]]
    /\ table = <<>>

BuildTeams ==
    /\ pc = "teams"
    /\ pc' = "teams_built"
    /\ table' = build_teams_df(payload)
    /\ UNCHANGED <<payload, gatewayVars>>

NextTeams == BuildTeams

SpecTeams == InitTeams /\ [][NextTeams]_vars

-----------------------------------------------------------------------------
(* Claims on build_teams_df *)

\* C5: in every Teams row bench + starters + taxi + ir == rostered over the
\* int8 columns (the sum wraps as the columns do), and as plain integers
\* whenever rostered - starters - taxi - ir fits in 8 bits.
C5_CountsAddUp ==
    pc = "teams_built" =>
        \A i \in DOMAIN table :
            LET row == table[i]
            IN  /\ Int8(row.bench + row.starters + row.taxi + row.ir) = row.rostered
                /\ (row.rostered - row.starters - row.taxi - row.ir) \in -128..127
                      => row.bench + row.starters + row.taxi + row.ir = row.rostered

\* a team with players on the bench, on the taxi squad and on reserve
C5_Witness ==
    /\ pc = "teams_built"
    /\ \E i \in DOMAIN table :
          /\ table[i].ir > 0 /\ table[i].taxi > 0
          /\ table[i].starters > 0 /\ table[i].bench > 0

-----------------------------------------------------------------------------
(* Claims on the player-catalog cache *)

\* the catalog files of the data folder that are not empty
NonEmptyFiles(fs) == {d \in DOMAIN fs : fs[d].kind \in {"pickle", "partial"}}

\* a catalog access made with no catalog in memory (the only one that goes to
\* the data folder)
ColdCatalogAccess == GetData("players") /\ league.players = EmptyDict

C8_CorruptFileIsAMiss ==
    [][(ColdCatalogAccess /\ files[today].kind \in {"empty", "partial"}) =>
          /\ ~last'.raised
          /\ last'.fetched = {<<"players", 0>>}
          /\ league'.players = upstream.rev
          /\ files'[today] = PickleFile(upstream.rev)]_vars

-----------------------------------------------------------------------------
(* Claims on lazy pulls and refresh *)

\* the requests of a step that asked for entity e
FetchedFor(e, op) == {r \in op.fetched : r[1] = e}

\* get_data(e) would pull: the cached payload equals dict()
CacheEmpty(lg, e) ==
    IF e = "matchups" THEN lg.matchups = <<>> ELSE Returned(lg, e) = EmptyDict

\* the payload a pull of e leaves in the session lg (its weeks, for matchups)
FreshPayload(lg, e) ==
    CASE e = "league" -> LeaguePayload(upstream)
      [] e = "matchups" -> [w \in MatchupWeeks(lg) |-> MatchupsPayload(upstream, w)]
      [] OTHER -> upstream.rev

\* the step is a refresh_data call that names e
RefreshNaming(e) ==
    e \in last'.data_to_refresh /\ RefreshData(last'.data_to_refresh)

\* C9 as stated, for the watched entity: nothing but its first access (or an
\* explicit refresh) fetches it before that access, the first access fetches
\* it, and every later access returns the cached payload without a fetch.
C9_FetchedOnFirstAccess ==
    [][/\ (~accessed' /\ ~RefreshNaming(watched)) => FetchedFor(watched, last') = {}
       /\ (GetData(watched) /\ ~accessed) =>
              /\ FetchedFor(watched, last') = Requests(watched, league)
              /\ watched # "matchups" => FetchedFor(watched, last') # {}
       /\ (GetData(watched) /\ accessed) =>
              /\ last'.fetched = {}
              /\ Returned(league', watched) = Returned(league, watched)]_vars

\* C9: rosters, users and matchups are fetched by the access that finds their
\* cached payload empty (and by a refresh naming them) and by nothing else,
\* and an access that finds a payload returns it without a fetch; league info
\* is fetched at construction and never by an access; the catalog is fetched
\* by an access made with no catalog in memory only when the data folder
\* holds no file of the day.
C9_FetchedWhenEmpty ==
    [][/\ watched \in {"rosters", "users", "matchups"} =>
            /\ (GetData(watched) /\ CacheEmpty(league, watched)) =>
                   /\ last'.fetched = Requests(watched, league)
                   /\ Returned(league', watched) = FreshPayload(league, watched)
            /\ (GetData(watched) /\ ~CacheEmpty(league, watched)) =>
                   /\ last'.fetched = {}
                   /\ league' = league
            /\ (~GetData(watched) /\ ~RefreshNaming(watched)) =>
                   FetchedFor(watched, last') = {}
       /\ watched = "league" =>
            /\ GetData("league") => (last'.fetched = {} /\ league' = league)
            /\ NewSession => last'.fetched = {<<"league", 0>>}
       /\ watched = "players" =>
            /\ (GetData("players") /\ ~CacheEmpty(league, "players")) =>
                   (last'.fetched = {} /\ league' = league)
            /\ (GetData("players") /\ CacheEmpty(league, "players")) =>
                   /\ files[today].kind \in {"none", "empty"} =>
                          /\ last'.fetched = {<<"players", 0>>}
                          /\ league'.players = upstream.rev
                   /\ files[today].kind = "pickle" =>
                          /\ last'.fetched = {}
                          /\ league'.players = files[today].rev]_vars

\* the rosters were accessed, and the payload cached then is still there after
\* the upstream data changed
C9_Witness ==
    /\ watched = "rosters"
    /\ accessed
    /\ league.rosters # EmptyDict
    /\ league.rosters # upstream.rev
    /\ league.matchups # <<>>
    /\ last.fetched = {}

\* C10: refresh_data re-pulls exactly the named entities: in every step that
\* is a refresh_data call (its names are recorded in last.data_to_refresh),
\* each named entity holds the payload fetched now, and for every other entity
\* nothing is fetched and its payload and the fields derived from the league
\* info are as before.
C10_RefreshExactlyNamed ==
    [][LET data_to_refresh == last'.data_to_refresh
       IN  RefreshData(data_to_refresh) =>
              /\ \A e \in data_to_refresh :
                    /\ Returned(league', e) = FreshPayload(league', e)
                    /\ FetchedFor(e, last') = Requests(e, league')
              /\ \A e \in Entities \ data_to_refresh :
                    /\ FetchedFor(e, last') = {}
                    /\ Returned(league', e) = Returned(league, e)
              /\ "league" \in data_to_refresh =>
                    /\ league'.name = upstream.rev
                    /\ league'.season = upstream.rev
                    /\ league'.current_week = upstream.leg
              /\ "league" \notin data_to_refresh =>
                    /\ league'.name = league.name
                    /\ league'.season = league.season
                    /\ league'.current_week = league.current_week]_vars

\* rosters and users were re-pulled together; the catalog and the league info
\* pulled before the upstream change are still the old ones
C10_Witness ==
    /\ last.data_to_refresh = {"rosters", "users"}
    /\ last.fetched = {<<"rosters", 0>>, <<"users", 0>>}
    /\ league.rosters = upstream.rev
    /\ league.users = upstream.rev
    /\ league.players # EmptyDict
    /\ league.players # upstream.rev
    /\ league.league_info.rev # upstream.rev

-----------------------------------------------------------------------------
(* _pull_matchups: one fetch per week, concurrent or sequential *)

\* most weeks a pull asks for
MaxPullWeek == 3

Pending == [kind |-> "pending", week |-> 0, rev |-> 0]
Failed == [kind |-> "failed", week |-> 0, rev |-> 0]
\* what sleeper_league.get_matchups(week) returns
WeekResponse(up, week) == [kind |-> "ok", week |-> week, rev |-> up.rev]

\* weeks = range(1, self.current_week + 1), as a list
WeekList(lg) == [i \in 1..lg.current_week |-> i]

\* dict(zip(keys, values)): pairs up to the shorter length, later keys win
DictZip(keys, values) ==
    LET n == IF Len(keys) < Len(values) THEN Len(keys) ELSE Len(values)
    IN  [k \in {keys[i] : i \in 1..n} |->
            values[CHOOSE i \in 1..n :
                      keys[i] = k /\ \A j \in 1..n : keys[j] = k => j <= i]]

\* faulty variant: results taken in the order the fetches completed
GatherAsCompleted(pull) ==
    [i \in 1..Len(pull.done) |-> pull.responses[pull.done[i]]]

\* asyncio.gather(*futures): results in the order of the futures
Gather(pull) ==
    [i \in 1..Len(pull.futures) |-> pull.responses[pull.futures[i]]]

\* {week: get_matchups(week) for week in range(1, current_week + 1)}
NonAsyncMapping(weeks, responses) ==
    [w \in Range(weeks) |-> responses[w]]

\* _pull_matchups enters: asyncio.run when no loop is running, else the
\* sequential path
StartPull ==
    /\ pc \in {"pull_idle", "pull_done"}
    /\ \E running_loop \in BOOLEAN :
          /\ pc' = IF running_loop THEN "pull_seq" ELSE "pull_async"
          /\ payload' = [path |-> IF running_loop THEN "seq" ELSE "async",
                         futures |-> WeekList(league),
                         responses |-> [w \in 1..league.current_week |-> Pending],
                         done |-> <<>>,
                         before |-> league.matchups]
    /\ last' = NoOp
    /\ UNCHANGED <<table, upstream, today, files, league, watched, accessed, dayLog>>

\* one executor thread returns from __pull_single_week_mathcup__(week),
\* with the week's payload or with an exception
AsyncFetchReturns ==
    /\ pc = "pull_async"
    /\ \E w \in DOMAIN payload.responses, ok \in BOOLEAN :
          /\ payload.responses[w] = Pending
          /\ payload' = [payload EXCEPT
                            !.responses[w] = IF ok THEN WeekResponse(upstream, w)
                                             ELSE Failed,
                            !.done = Append(@, w)]
    /\ UNCHANGED <<pc, table, gatewayVars>>

\* faulty variant: a failed week is left out and the rest is stored
AsyncPullKeepsTheRest ==
    /\ pc = "pull_async"
    /\ Len(payload.done) = Len(payload.futures)
    /\ pc' = "pull_done"
    /\ LET ok == {w \in Range(payload.futures) : payload.responses[w] # Failed}
       IN  /\ league' = [league EXCEPT !.matchups = [w \in ok |-> payload.responses[w]]]
           /\ last' = Op({<<"matchups", w>> : w \in Range(payload.done)}, FALSE)
    /\ UNCHANGED <<payload, table, upstream, today, files, watched, accessed, dayLog>>

\* asyncio.run returns: gather raised the first exception, or
\* self.matchups = dict(zip(weeks, matchups))
AsyncPullReturns ==
    /\ pc = "pull_async"
    /\ Len(payload.done) = Len(payload.futures)
    /\ pc' = "pull_done"
    /\ IF \E w \in Range(payload.futures) : payload.responses[w] = Failed
       THEN /\ league' = league
            /\ last' = Op({<<"matchups", w>> : w \in Range(payload.done)}, TRUE)
       ELSE /\ league' = [league EXCEPT
                             !.matchups = DictZip(payload.futures, Gather(payload))]
            /\ last' = Op({<<"matchups", w>> : w \in Range(payload.done)}, FALSE)
    /\ UNCHANGED <<payload, table, upstream, today, files, watched, accessed, dayLog>>

\* _pull_matchups_nonasync: the comprehension asks for the next week; an
\* exception ends the call before self.matchups is assigned
SeqFetchReturns ==
    /\ pc = "pull_seq"
    /\ Len(payload.done) < Len(payload.futures)
    /\ LET w == payload.futures[Len(payload.done) + 1]
       IN  \E ok \in BOOLEAN :
              /\ payload' = [payload EXCEPT
                                !.responses[w] = IF ok THEN WeekResponse(upstream, w)
                                                 ELSE Failed,
                                !.done = Append(@, w)]
              /\ IF ok
                 THEN UNCHANGED <<pc, last>>
                 ELSE /\ pc' = "pull_done"
                      /\ last' = Op({<<"matchups", v>> : v \in Range(payload.done) \cup {w}},
                                    TRUE)
    /\ UNCHANGED <<table, upstream, today, files, league, watched, accessed, dayLog>>

\* _pull_matchups_nonasync: self.matchups = {week: ...}
SeqPullReturns ==
    /\ pc = "pull_seq"
    /\ Len(payload.done) = Len(payload.futures)
    /\ pc' = "pull_done"
    /\ league' = [league EXCEPT
                     !.matchups = NonAsyncMapping(payload.futures, payload.responses)]
    /\ last' = Op({<<"matchups", w>> : w \in Range(payload.done)}, FALSE)
    /\ UNCHANGED <<payload, table, upstream, today, files, watched, accessed, dayLog>>

\* the upstream data changes while the weeks are being fetched
ResponsesChange ==
    /\ pc \in {"pull_async", "pull_seq"}
    /\ upstream' = [upstream EXCEPT !.rev = CHOOSE r \in Revs : r # upstream.rev]
    /\ UNCHANGED <<builderVars, today, files, league, watched, accessed, last, dayLog>>

\* a session whose league info says current_week = weeks; the cached matchups
\* are still empty, or hold what an earlier pull stored
InitPull ==
    /\ pc = "pull_idle"
    /\ payload = [path |-> "none", futures |-> <<>>, responses |-> <<>>,
                  done |-> <<>>, before |-> <<>>]
    /\ table = <<>>
    /\ upstream \in [rev : Revs, leg : 0..MaxPullWeek]
    /\ today = 1
    /\ files = [d \in Days |-> NoFile]
    /\ \E cached \in BOOLEAN :
          league = LET lg == pull_league_data([NoLeague EXCEPT !.alive = TRUE], upstream)
                   IN  IF cached
                       THEN [lg EXCEPT !.matchups =
                                [w \in 1..lg.current_week |-> WeekResponse(upstream, w)]]
                       ELSE lg
    /\ watched = "none"
    /\ accessed = FALSE
    /\ last = NoOp
    /\ dayLog = NewDay

NextPull ==
    \/ StartPull
    \/ AsyncFetchReturns
    \/ AsyncPullReturns
    \/ SeqFetchReturns
    \/ SeqPullReturns
    \/ ResponsesChange

SpecPull == InitPull /\ [][NextPull]_vars

-----------------------------------------------------------------------------
(* Claims on _pull_matchups *)

PullReturned == pc = "pull_done" /\ ~last.raised
PullFailed == \E w \in DOMAIN payload.responses : payload.responses[w] = Failed

\* C11: whatever the order in which the concurrent fetches complete, the
\* mapping stored by _pull_matchups has exactly the weeks 1..current_week as
\* keys and the payload the fetch for week w returned as the value of w; it is
\* the mapping the sequential path stores for the same responses.
C11_WeekIndexedWhateverTheOrder ==
    PullReturned =>
        /\ DOMAIN league.matchups = 1..league.current_week
        /\ \A w \in DOMAIN league.matchups :
              /\ league.matchups[w] = payload.responses[w]
              /\ league.matchups[w].kind = "ok"
              /\ league.matchups[w].week = w
        /\ league.matchups = NonAsyncMapping(WeekList(league), payload.responses)

\* three weeks fetched concurrently, completed in the order 3, 1, 2, with the
\* upstream data changing in between
C11_Witness ==
    /\ PullReturned
    /\ payload.path = "async"
    /\ payload.done = <<3, 1, 2>>
    /\ league.matchups[3].rev # league.matchups[2].rev

\* C12: when the fetch of a week fails, on either path, the call raises, no
\* week is asked for twice, and the cached mapping is the one held before the
\* call; at no moment does the cache hold a mapping that lacks a week or has
\* a payload other than the one fetched for that week.
C12_FailurePropagates ==
    /\ \A i, j \in DOMAIN payload.done : payload.done[i] = payload.done[j] => i = j
    /\ (pc = "pull_done" /\ PullFailed) =>
          /\ last.raised
          /\ league.matchups = payload.before
    /\ pc \in {"pull_async", "pull_seq"} => league.matchups = payload.before
    /\ (pc = "pull_done" /\ league.matchups # payload.before) =>
          /\ DOMAIN league.matchups = 1..league.current_week
          /\ \A w \in DOMAIN league.matchups : league.matchups[w] = payload.responses[w]

\* a refresh on the concurrent path in which week 2 failed after week 3 and
\* before week 1 returned: the mapping cached earlier is still there
C12_Witness ==
    /\ pc = "pull_done"
    /\ payload.path = "async"
    /\ payload.done = <<3, 2, 1>>
    /\ payload.responses[2] = Failed
    /\ payload.responses[1] # Failed
    /\ last.raised
    /\ league.matchups # <<>>
    /\ league.matchups = payload.before

-----------------------------------------------------------------------------
(* _pull_league_data: starting_positions and ordered_roster_positions *)

\* longest roster_positions list of a league
MaxPositions == 4

PositionLabels == {"QB", "DL", "LB", "CB", "FLEX", "BN"}

\* [pos for pos in league_info['roster_positions'] if pos != 'BN']
starting_positions(roster_positions) ==
    SelectSeq(roster_positions, LAMBDA pos : pos # "BN")

\* list.index(x): the first index holding x
IndexOf(list, x) == CHOOSE i \in DOMAIN list : list[i] = x /\ \A j \in 1..(i - 1) : list[j] # x

\* list.insert(i, x), with i a 1-based index of the list
InsertAt(list, i, x) == SubSeq(list, 1, i - 1) \o <<x>> \o SubSeq(list, i, Len(list))

\* list.remove(x): the first occurrence goes
RemoveFirst(list, x) ==
    SubSeq(list, 1, IndexOf(list, x) - 1) \o SubSeq(list, IndexOf(list, x) + 1, Len(list))

\* the orders in which list(set(positions)) can come out
SetOrders(positions) ==
    {order \in [1..Cardinality(Range(positions)) -> Range(positions)] :
        \A i, j \in DOMAIN order : order[i] = order[j] => i = j}

\* the three ifs on `roster`, applied to roster = list(set(starting_positions))
ordered_roster_positions(roster) ==
    LET r1 == IF "DL" \in Range(roster) /\ "LB" \in Range(roster)
              THEN InsertAt(roster, IndexOf(roster, "LB"), "DL/LB") ELSE roster
        r2 == IF "LB" \in Range(r1) /\ "CB" \in Range(r1)
              THEN InsertAt(r1, IndexOf(r1, "LB"), "LB/DB") ELSE r1
    IN  IF "FLEX" \in Range(r2) THEN RemoveFirst(r2, "FLEX") ELSE r2

RosterPositionLists ==
    UNION {[1..n -> PositionLabels] : n \in 0..MaxPositions}

InitPositions ==
    /\ GatewayIdle
    /\ pc = "positions"
    /\ \E roster_positions \in RosterPositionLists :
          \E order \in SetOrders(starting_positions(roster_positions)) :
              payload = [roster_positions |-> roster_positions, roster |-> order]
    /\ table = <<>>

PullLeagueData ==
    /\ pc = "positions"
    /\ pc' = "positions_set"
    /\ table' = ordered_roster_positions(payload.roster)
    /\ UNCHANGED <<payload, gatewayVars>>

NextPositions == PullLeagueData

SpecPositions == InitPositions /\ [][NextPositions]_vars

-----------------------------------------------------------------------------
(* Claims on the ordered roster positions *)

Configured(pos) == pos \in Range(payload.roster_positions)

\* C13: the ordered roster positions hold neither "BN" nor "FLEX" and nothing
\* twice, and whenever both "DL" and "LB" are configured "DL/LB" sits at the
\* index immediately before "LB", also when "CB" is configured.
C13_CombinedLabelBeforeLB ==
    pc = "positions_set" =>
        /\ "BN" \notin Range(table)
        /\ "FLEX" \notin Range(table)
        /\ \A i, j \in DOMAIN table : table[i] = table[j] => i = j
        /\ (Configured("DL") /\ Configured("LB")) =>
              \E i \in DOMAIN table :
                  /\ table[i] = "DL/LB"
                  /\ i + 1 \in DOMAIN table
                  /\ table[i + 1] = "LB"

\* what the code does give: no "BN", no "FLEX", nothing twice; "DL/LB"
\* immediately before "LB" unless "CB" is configured too, and then "LB/DB"
\* between the two
OrderedPositionsShape ==
    pc = "positions_set" =>
        /\ "BN" \notin Range(table)
        /\ "FLEX" \notin Range(table)
        /\ \A i, j \in DOMAIN table : table[i] = table[j] => i = j
        /\ (Configured("DL") /\ Configured("LB") /\ ~Configured("CB")) =>
              table[IndexOf(table, "LB") - 1] = "DL/LB"
        /\ (Configured("LB") /\ Configured("CB")) =>
              table[IndexOf(table, "LB") - 1] = "LB/DB"
        /\ (Configured("DL") /\ Configured("LB") /\ Configured("CB")) =>
              table[IndexOf(table, "LB") - 2] = "DL/LB"

-----------------------------------------------------------------------------
(* build_players_df *)

\* longest fantasy_positions list of a catalog entry
MaxEligible == 2
\* most build_players_df calls followed in a session
MaxBuilds == 3

\* position codes, in alphabetical order
Alphabet == <<"DB", "K", "LEO", "LS", "OLB", "P">>

\* pos[0]
FirstLetter(pos) ==
    CASE pos = "DB" -> "D"
      [] pos = "K" -> "K"
      [] pos \in {"LEO", "LS"} -> "L"
      [] pos = "OLB" -> "O"
      [] pos = "P" -> "P"

\* sorted(positions): every code as often as the list holds it
Sorted(positions) ==
    FlatMap(LAMBDA code : SelectSeq(positions, LAMBDA pos : pos = code), Alphabet)

\* list.remove(x) when x is in the list
RemoveIfPresent(list, x) ==
    IF x \in Range(list) THEN RemoveFirst(list, x) ELSE list

\* _drop_unused_positions
drop_unused_positions(positions) ==
    Sorted(RemoveIfPresent(
               RemoveIfPresent(
                   RemoveIfPresent(SelectSeq(positions, LAMBDA pos : FirstLetter(pos) # "O"),
                                   "LEO"),
                   "LS"),
               "P"))

RECURSIVE Join(_)
\* '/'.join(list)
Join(list) ==
    IF list = <<>> THEN ""
    ELSE IF Len(list) = 1 THEN list[1]
    ELSE list[1] \o "/" \o Join(Tail(list))

\* d if isinstance(d, list) else []
ListOrEmpty(player_info) ==
    IF player_info.is_list THEN player_info.fantasy_positions ELSE <<>>

\* the rows build_players_df keeps, in the order of the catalog
PlayerRows(players_dict) ==
    LET players_cleaned == SelectSeq(players_dict, LAMBDA player_info : player_info.active)
        Row(player_info) ==
            LET fantasy_pos == Join(drop_unused_positions(ListOrEmpty(player_info)))
            IN  IF fantasy_pos # ""
                THEN <<[player_id |-> player_info.player_id, fantasy_pos |-> fantasy_pos]>>
                ELSE <<>>
    IN  FlatMap(Row, players_cleaned)

\* faulty variant: the new rows are appended to the table built before
build_players_df_appending(self) ==
    IF SelectSeq(self.players_dict, LAMBDA player_info : player_info.active) = <<>>
    THEN [raised |-> TRUE, rows |-> <<>>]
    ELSE [raised |-> FALSE, rows |-> self._players.rows \o PlayerRows(self.players_dict)]

\* build_players_df; with no active entry the frame has no fantasy_positions
\* column and the assign raises AttributeError
build_players_df(self) ==
    IF SelectSeq(self.players_dict, LAMBDA player_info : player_info.active) = <<>>
    THEN [raised |-> TRUE, rows |-> <<>>]
    ELSE [raised |-> FALSE, rows |-> PlayerRows(self.players_dict)]

\* self._players = None
NoTable == [raised |-> FALSE, rows |-> <<>>]

EligibleLists == UNION {[1..n -> Range(Alphabet)] : n \in 0..MaxEligible}

\* catalog entries: one of any shape, followed by a plain one
CatalogPayloads ==
    {<<[player_id |-> 1, active |-> a1, is_list |-> l1,
        fantasy_positions |-> IF l1 THEN p1 ELSE <<>>],
       [player_id |-> 2, active |-> a2, is_list |-> TRUE,
        fantasy_positions |-> p2]>> :
        a1 \in BOOLEAN, l1 \in BOOLEAN, p1 \in EligibleLists,
        a2 \in BOOLEAN, p2 \in {<<"K">>, <<"P", "DB">>}}

InitPlayers ==
    /\ GatewayIdle
    /\ pc = "players"
    /\ \E players_dict \in CatalogPayloads :
          payload = [players_dict |-> players_dict, builds |-> 0, first |-> NoTable]
    /\ table = NoTable

\* one more build_players_df call on the same catalog payload
BuildPlayers ==
    /\ pc \in {"players", "players_built"}
    /\ payload.builds < MaxBuilds
    /\ pc' = "players_built"
    /\ table' = IF build_players_df([players_dict |-> payload.players_dict,
                                     _players |-> table]).raised
                THEN table
                ELSE build_players_df([players_dict |-> payload.players_dict,
                                       _players |-> table])
    /\ payload' = [payload EXCEPT
                      !.builds = @ + 1,
                      !.first = IF payload.builds = 0
                                THEN build_players_df([players_dict |-> payload.players_dict,
                                                       _players |-> table])
                                ELSE @]
    /\ UNCHANGED gatewayVars

NextPlayers == BuildPlayers

SpecPlayers == InitPlayers /\ [][NextPlayers]_vars

-----------------------------------------------------------------------------
(* Claims on the Players table *)

\* the eligible positions of an entry without the codes starting with "O" and
\* without LEO, LS and P
KeptPositions(player_info) ==
    SelectSeq(ListOrEmpty(player_info),
              LAMBDA pos : FirstLetter(pos) # "O" /\ pos \notin {"LEO", "LS", "P"})

PlayersBuilt == pc = "players_built" /\ ~payload.first.raised

\* C14: for every catalog entry, fantasy_pos is the sorted, "/"-joined list of
\* its eligible positions with every code starting with "O" and every
\* occurrence of LEO, LS and P removed, and the entry is in the Players table
\* exactly when it is active and that fantasy_pos is not empty.
C14_FantasyPos ==
    PlayersBuilt =>
        \A i \in DOMAIN payload.players_dict :
            LET player_info == payload.players_dict[i]
                fantasy_pos == Join(Sorted(KeptPositions(player_info)))
                rows == SelectSeq(table.rows,
                                  LAMBDA row : row.player_id = player_info.player_id)
            IN  /\ (rows # <<>>) <=> (player_info.active /\ fantasy_pos # "")
                /\ \A k \in DOMAIN rows : rows[k].fantasy_pos = fantasy_pos

\* the same for the entries that hold no position code twice
FantasyPosWithoutRepeats ==
    PlayersBuilt =>
        \A i \in DOMAIN payload.players_dict :
            LET player_info == payload.players_dict[i]
                listed == ListOrEmpty(player_info)
                fantasy_pos == Join(Sorted(KeptPositions(player_info)))
                rows == SelectSeq(table.rows,
                                  LAMBDA row : row.player_id = player_info.player_id)
            IN  (\A a, b \in DOMAIN listed : listed[a] = listed[b] => a = b) =>
                    /\ (rows # <<>>) <=> (player_info.active /\ fantasy_pos # "")
                    /\ \A k \in DOMAIN rows : rows[k].fantasy_pos = fantasy_pos

-----------------------------------------------------------------------------
(* _pull_rosters and the point totals of build_teams_df *)

\* an optional field of the upstream JSON: there with a value, or not there
Field(val) == [has |-> TRUE, val |-> val]
NoNumber == [has |-> FALSE, val |-> 0]
NoList == [has |-> FALSE, val |-> <<>>]
NoString == [has |-> FALSE, val |-> ""]

PointKeys ==
    {"fpts", "fpts_decimal", "fpts_against", "fpts_against_decimal",
     "ppts", "ppts_decimal"}

\* the keys _pull_rosters fills in with 0
DefaultedKeys ==
    {"fpts_decimal", "fpts_against", "fpts_against_decimal", "ppts", "ppts_decimal"}

\* _pull_rosters, one roster: None lists become [], the settings that do not
\* exist in the preseason become 0 and ''; roster['settings'] raises KeyError
\* when the roster has no settings
NormalizeRoster(roster) ==
    IF ~roster.has_settings
    THEN [raised |-> TRUE, roster |-> roster]
    ELSE [raised |-> FALSE,
          roster |->
              [roster EXCEPT
                  !.starters = IF @.has THEN @ ELSE Field(<<>>),
                  !.taxi = IF @.has THEN @ ELSE Field(<<>>),
                  !.reserve = IF @.has THEN @ ELSE Field(<<>>),
                  !.settings = [key \in PointKeys |->
                                   IF key \in DefaultedKeys /\ ~@[key].has
                                   THEN Field(0) ELSE @[key]],
                  !.record = IF @.has THEN @ ELSE Field("")]]

\* a float whole + decimal / 100, as a number of hundredths
PointsValue(whole, decimal) == 100 * whole + decimal

\* faulty variant: points_against takes the decimals of points_for
TeamPointsWrongDecimal(settings) ==
    [points_for |-> PointsValue(settings["fpts"].val, settings["fpts_decimal"].val),
     points_against |-> PointsValue(settings["fpts_against"].val,
                                    settings["fpts_decimal"].val),
     possible_points |-> PointsValue(settings["ppts"].val, settings["ppts_decimal"].val)]

\* points_for, points_against, possible_points
TeamPoints(settings) ==
    [points_for |-> PointsValue(settings["fpts"].val, settings["fpts_decimal"].val),
     points_against |-> PointsValue(settings["fpts_against"].val,
                                    settings["fpts_against_decimal"].val),
     possible_points |-> PointsValue(settings["ppts"].val, settings["ppts_decimal"].val)]

\* build_teams_df on one pulled roster: .astype({'fpts': np.int64, ...}) raises
\* when a point column is not there
TeamsRow(roster) ==
    IF \E key \in PointKeys : ~roster.settings[key].has
    THEN [raised |-> TRUE, row |-> <<>>]
    ELSE [raised |-> FALSE,
          row |-> [points |-> TeamPoints(roster.settings),
                   record |-> roster.record.val,
                   counts |-> TeamCounts(Len(roster.players), Len(roster.starters.val),
                                         Len(roster.taxi.val), Len(roster.reserve.val))]]

WholePoints == {0, 105}
DecimalPoints == {7, 50}

\* the rosters the API can answer with: every optional field there or not
RawRosters ==
    {[players |-> <<1, 2>>,
      starters |-> starters, taxi |-> taxi, reserve |-> reserve,
      has_settings |-> has_settings,
      settings |-> IF has_settings THEN settings ELSE [key \in PointKeys |-> NoNumber],
      record |-> IF has_settings THEN record ELSE NoString] :
        starters \in {NoList, Field(<<1>>)},
        taxi \in {NoList, Field(<<2>>)},
        reserve \in {NoList, Field(<<>>)},
        has_settings \in BOOLEAN,
        settings \in {s \in [PointKeys -> {NoNumber} \cup {Field(v) : v \in WholePoints \cup DecimalPoints}] :
                        \A key \in PointKeys :
                            s[key].has =>
                                s[key].val \in (IF key \in {"fpts", "fpts_against", "ppts"}
                                                THEN WholePoints ELSE DecimalPoints)},
        record \in {NoString, Field("1-0")}}

InitSettings ==
    /\ GatewayIdle
    /\ pc = "raw_roster"
    /\ payload \in RawRosters
    /\ table = <<>>

\* _pull_rosters
PullRosters ==
    /\ pc = "raw_roster"
    /\ pc' = IF NormalizeRoster(payload).raised THEN "pull_raised" ELSE "pulled"
    /\ table' = NormalizeRoster(payload).roster
    /\ UNCHANGED <<payload, gatewayVars>>

\* build_teams_df on the pulled rosters
BuildTeamsRow ==
    /\ pc = "pulled"
    /\ pc' = IF TeamsRow(table).raised THEN "teams_raised" ELSE "teams_row_built"
    /\ table' = [roster |-> table, row |-> TeamsRow(table).row]
    /\ UNCHANGED <<payload, gatewayVars>>

NextSettings == PullRosters \/ BuildTeamsRow

SpecSettings == InitSettings /\ [][NextSettings]_vars

-----------------------------------------------------------------------------
(* Claims on the point totals and on missing fields *)

C19_MissingFieldsDefaulted ==
    /\ pc \notin {"pull_raised", "teams_raised"}
    /\ pc = "teams_row_built" =>
          /\ \A key \in PointKeys :
                ~payload.settings[key].has => table.roster.settings[key].val = 0
          /\ ~payload.starters.has => table.roster.starters.val = <<>>
          /\ ~payload.taxi.has => table.roster.taxi.val = <<>>
          /\ ~payload.reserve.has => table.roster.reserve.val = <<>>
          /\ ~payload.record.has => table.row.record = ""

\* what the code does give: with the settings and fpts there, nothing raises
\* and every other missing field has its default
PreseasonFieldsDefaulted ==
    /\ (payload.has_settings /\ payload.settings["fpts"].has) =>
          pc \notin {"pull_raised", "teams_raised"}
    /\ pc = "teams_row_built" =>
          /\ \A key \in PointKeys :
                ~payload.settings[key].has => table.roster.settings[key].val = 0
          /\ ~payload.starters.has => table.roster.starters.val = <<>>
          /\ ~payload.taxi.has => table.roster.taxi.val = <<>>
          /\ ~payload.reserve.has => table.roster.reserve.val = <<>>
          /\ ~payload.record.has => table.row.record = ""

-----------------------------------------------------------------------------
(* SleeperLeagueAnalyzer: memoized tables and views over the gateway *)

Builders == {"matchups", "players", "rosters", "teams", "users"}
Views == {"team-general", "roster-distribution", "weekly_scoring"}

\* a DataFrame, named by the payloads and tables it was computed from
DataFrame(name, parts) == [name |-> name, parts |-> parts]
\* self._matchups = None, ...; a name missing from self._data_frames
None == [name |-> "None", parts |-> <<>>]

\* SleeperLeagueAnalyzer.__post_init__
NewAnalyzer ==
    [_matchups |-> None, _players |-> None, _rosters |-> None,
     _teams |-> None, _users |-> None,
     _data_frames |-> [view \in Views |-> None]]

\* a call in progress: the gateway and the analyzer as the call has left them
\* so far, the upstream requests and the builders it has run, what it returns
Call(lg, fs, an) ==
    [league |-> lg, files |-> fs, an |-> an,
     fetched |-> {}, built |-> {}, raised |-> FALSE, returned |-> None]

\* self.league.get_data(data) inside a call
Access(c, data) ==
    CASE data = "league" -> c
      [] data = "players" ->
            IF c.league.players # EmptyDict THEN c
            ELSE LET cleared == clear_old_player_files(c.files, today)
                 IN  IF cleared[today].kind = "pickle"
                     THEN [c EXCEPT !.files = cleared,
                                    !.league.players = cleared[today].rev]
                     ELSE IF cleared[today].kind = "partial"
                     THEN [c EXCEPT !.files = cleared, !.raised = TRUE]
                     ELSE [c EXCEPT
                              !.files = [cleared EXCEPT
                                            ![today] = PickleFile(upstream.rev)],
                              !.league = pull_players(c.league, upstream),
                              !.fetched = @ \cup Requests("players", c.league)]
      [] data = "rosters" ->
            IF c.league.rosters # EmptyDict THEN c
            ELSE [c EXCEPT !.league = pull_rosters(c.league, upstream),
                           !.fetched = @ \cup Requests("rosters", c.league)]
      [] data = "users" ->
            IF c.league.users # EmptyDict THEN c
            ELSE [c EXCEPT !.league = pull_users(c.league, upstream),
                           !.fetched = @ \cup Requests("users", c.league)]
      [] data = "matchups" ->
            IF c.league.matchups # <<>> THEN c
            ELSE [c EXCEPT !.league = pull_matchups(c.league, upstream),
                           !.fetched = @ \cup Requests("matchups", c.league)]

\* a builder has run to its end: self._x = df; return df
Built(c, builder, df) ==
    [c EXCEPT !.an = IF builder = "matchups" THEN [@ EXCEPT !._matchups = df]
                     ELSE IF builder = "players" THEN [@ EXCEPT !._players = df]
                     ELSE IF builder = "rosters" THEN [@ EXCEPT !._rosters = df]
                     ELSE IF builder = "teams" THEN [@ EXCEPT !._teams = df]
                     ELSE [@ EXCEPT !._users = df],
              !.built = @ \cup {builder},
              !.returned = df]

\* faulty variant: the users are pulled again by every build
build_users_refetching(c) ==
    LET g == [c EXCEPT !.league = pull_users(c.league, upstream),
                       !.fetched = @ \cup Requests("users", c.league)]
    IN  Built(g, "users", DataFrame("users", <<g.league.users>>))

\* build_users_df
build_users(c) ==
    LET g == Access(c, "users")
    IN  Built(g, "users", DataFrame("users", <<g.league.users>>))

\* build_teams_df
build_teams(c) ==
    LET g == Access(c, "rosters")
    IN  Built(g, "teams", DataFrame("teams", <<g.league.rosters>>))

\* build_rosters_df also reads self.league.starting_positions
build_rosters(c) ==
    LET g == Access(c, "rosters")
    IN  Built(g, "rosters",
              DataFrame("rosters", <<g.league.rosters, g.league.league_info.rev>>))

\* build_players_df
build_players(c) ==
    LET g == Access(c, "players")
    IN  IF g.raised THEN g
        ELSE Built(g, "players", DataFrame("players", <<g.league.players>>))

\* self.df_players (not reached when an exception is on its way up)
df_players(c) ==
    IF c.raised THEN c
    ELSE IF c.an._players = None THEN build_players(c)
    ELSE [c EXCEPT !.returned = c.an._players]

\* build_matchups_df: with no week pd.concat([]) raises ValueError; with
\* weeks, _roster_distribution reads self.df_players for every row
build_matchups(c) ==
    LET g == Access(c, "matchups")
    IN  IF g.league.matchups = <<>>
        THEN [g EXCEPT !.built = @ \cup {"matchups"}, !.raised = TRUE]
        ELSE LET p == df_players(g)
             IN  IF p.raised THEN p
                 ELSE Built(p, "matchups",
                            DataFrame("matchups",
                                      <<p.league.matchups, p.an._players,
                                        p.league.league_info.rev>>))

\* self.df_users
df_users(c) ==
    IF c.raised THEN c
    ELSE IF c.an._users = None THEN build_users(c)
    ELSE [c EXCEPT !.returned = c.an._users]

\* self.df_teams
df_teams(c) ==
    IF c.raised THEN c
    ELSE IF c.an._teams = None THEN build_teams(c)
    ELSE [c EXCEPT !.returned = c.an._teams]

\* self.df_rosters
df_rosters(c) ==
    IF c.raised THEN c
    ELSE IF c.an._rosters = None THEN build_rosters(c)
    ELSE [c EXCEPT !.returned = c.an._rosters]

\* self.df_matchups
df_matchups(c) ==
    IF c.raised THEN c
    ELSE IF c.an._matchups = None THEN build_matchups(c)
    ELSE [c EXCEPT !.returned = c.an._matchups]

\* self._data_frames[view] = df; return df
Stored(c, view, df) ==
    [c EXCEPT !.an._data_frames[view] = df, !.returned = df]

\* faulty variant: the view is computed again although its name is stored
get_general_team_data_recomputed(c) ==
    LET users == df_users(c)
        teams == df_teams(users)
    IN  IF teams.raised THEN teams
        ELSE Stored(teams, "team-general",
                    DataFrame("team-general", <<teams.an._teams, teams.an._users>>))

get_general_team_data(c) ==
    IF c.an._data_frames["team-general"] # None
    THEN [c EXCEPT !.returned = c.an._data_frames["team-general"]]
    ELSE LET users == df_users(c)
             teams == df_teams(users)
         IN  IF teams.raised THEN teams
             ELSE Stored(teams, "team-general",
                         DataFrame("team-general", <<teams.an._teams, teams.an._users>>))

\* _sort_roster_distribution_columns reads self.league.ordered_roster_positions
get_roster_distribution(c) ==
    IF c.an._data_frames["roster-distribution"] # None
    THEN [c EXCEPT !.returned = c.an._data_frames["roster-distribution"]]
    ELSE LET users == df_users(c)
             teams == df_teams(users)
             rosters == df_rosters(teams)
             players == df_players(rosters)
         IN  IF players.raised THEN players
             ELSE Stored(players, "roster-distribution",
                         DataFrame("roster-distribution",
                                   <<players.an._rosters, players.an._players,
                                     players.an._users, players.an._teams,
                                     players.league.league_info.rev>>))

get_weekly_scoring(c) ==
    IF c.an._data_frames["weekly_scoring"] # None
    THEN [c EXCEPT !.returned = c.an._data_frames["weekly_scoring"]]
    ELSE LET matchups == df_matchups(c)
             users == df_users(matchups)
             teams == df_teams(users)
         IN  IF teams.raised THEN teams
             ELSE Stored(teams, "weekly_scoring",
                         DataFrame("weekly_scoring",
                                   <<teams.an._matchups, teams.an._teams,
                                     teams.an._users>>))

RunView(view, c) ==
    CASE view = "team-general" -> get_general_team_data(c)
      [] view = "roster-distribution" -> get_roster_distribution(c)
      [] view = "weekly_scoring" -> get_weekly_scoring(c)

RunBuilder(builder, c) ==
    CASE builder = "matchups" -> build_matchups(c)
      [] builder = "players" -> build_players(c)
      [] builder = "rosters" -> build_rosters(c)
      [] builder = "teams" -> build_teams(c)
      [] builder = "users" -> build_users(c)

\* self.df_matchups, self.df_players, ...
ReadProperty(builder, c) ==
    CASE builder = "matchups" -> df_matchups(c)
      [] builder = "players" -> df_players(c)
      [] builder = "rosters" -> df_rosters(c)
      [] builder = "teams" -> df_teams(c)
      [] builder = "users" -> df_users(c)

\* the state a finished call leaves behind
Finished(c) ==
    /\ league' = c.league
    /\ files' = c.files
    /\ table' = c.an
    /\ last' = Op(c.fetched, c.raised)
    /\ payload' = [built |-> c.built,
                   returned |-> IF c.raised THEN None ELSE c.returned]
    /\ UNCHANGED <<pc, upstream, today, watched, accessed, dayLog>>

\* a page asks the analyzer for a view
ViewCall(view) ==
    /\ league.alive
    /\ Finished(RunView(view, Call(league, files, table)))

\* build_*_df called on the analyzer
BuilderCall(builder) ==
    /\ league.alive
    /\ Finished(RunBuilder(builder, Call(league, files, table)))

\* a df_* property read on the analyzer
PropertyRead(builder) ==
    /\ league.alive
    /\ Finished(ReadProperty(builder, Call(league, files, table)))

\* update_league_analyzer(league_id): a new SleeperLeagueAnalyzer
ReplaceAnalyzer ==
    /\ league' = pull_league_data([NoLeague EXCEPT !.alive = TRUE], upstream)
    /\ table' = NewAnalyzer
    /\ last' = Op(Requests("league", league), FALSE)
    /\ payload' = [built |-> {}, returned |-> None]
    /\ UNCHANGED <<pc, upstream, today, files, watched, accessed, dayLog>>

\* the upstream data moves on, once
NewUpstreamData ==
    /\ upstream.rev = 1
    /\ upstream' = [upstream EXCEPT !.rev = 2]
    /\ UNCHANGED <<builderVars, today, files, league, watched, accessed, last, dayLog>>

InitViews ==
    /\ pc = "views"
    /\ payload = [built |-> {}, returned |-> None]
    /\ table = NewAnalyzer
    /\ upstream \in [rev : {1}, leg : 0..MaxWeek]
    /\ today = 1
    /\ files = [d \in Days |-> NoFile]
    /\ league = pull_league_data([NoLeague EXCEPT !.alive = TRUE], upstream)
    /\ watched = "none"
    /\ accessed = FALSE
    /\ last = Op(Requests("league", league), FALSE)
    /\ dayLog = NewDay

NextViews ==
    \/ \E view \in Views : ViewCall(view)
    \/ \E builder \in Builders : BuilderCall(builder)
    \/ \E builder \in Builders : PropertyRead(builder)
    \/ RefreshData({"rosters"})
    \/ ReplaceAnalyzer
    \/ NewUpstreamData

SpecViews == InitViews /\ [][NextViews]_vars

-----------------------------------------------------------------------------
(* Claims on the builders and the views *)

\* the entities a builder asks the gateway for
ReadBy(builder) ==
    CASE builder = "matchups" -> {"matchups", "players"}
      [] builder = "players" -> {"players"}
      [] builder \in {"rosters", "teams"} -> {"rosters"}
      [] builder = "users" -> {"users"}

LeagueInfoKept ==
    /\ league'.league_info = league.league_info
    /\ league'.name = league.name
    /\ league'.season = league.season
    /\ league'.current_week = league.current_week

\* C17 as stated: after a builder call the gateway's league info and its
\* players, rosters, users and matchups payloads are what they were before.
C17_BuildersLeaveGatewayAlone ==
    [][\A builder \in Builders :
          BuilderCall(builder) =>
              /\ LeagueInfoKept
              /\ \A e \in Entities \ {"league"} :
                    Returned(league', e) = Returned(league, e)]_vars

\* C17: a builder call never changes the league info nor a payload the
\* gateway already holds, and fetches nothing for it; the only gateway state
\* it changes is the cache of an entity it reads that was empty, which
\* get_data fills (for the catalog, from upstream or from the file of the day).
C17_BuildersOnlyFillEmptyCaches ==
    [][\A builder \in Builders :
          BuilderCall(builder) =>
              /\ LeagueInfoKept
              /\ \A e \in Entities \ {"league"} :
                    /\ ~CacheEmpty(league, e) =>
                          /\ Returned(league', e) = Returned(league, e)
                          /\ FetchedFor(e, last') = {}
                    /\ Returned(league', e) # Returned(league, e) =>
                          /\ e \in ReadBy(builder)
                          /\ IF e = "players"
                             THEN league'.players \in {upstream.rev, files[today].rev}
                             ELSE Returned(league', e) = FreshPayload(league, e)]_vars

\* build_teams_df has run on rosters pulled before the upstream data moved on:
\* nothing was fetched and the gateway still holds the older payload
C17_Witness ==
    /\ payload.built = {"teams"}
    /\ payload.returned = DataFrame("teams", <<league.rosters>>)
    /\ league.rosters # EmptyDict
    /\ league.rosters # upstream.rev
    /\ last.fetched = {}
    /\ last.data_to_refresh = {}

\* C18: with an empty entity (no matchup weeks: current_week = 0) no builder
\* raises, it returns a table, and the views that do not read that entity are
\* built.
C18_EmptyEntityGivesEmptyTable ==
    [][/\ \A builder \in Builders :
             BuilderCall(builder) => (~last'.raised /\ payload'.returned # None)
       /\ \A view \in Views \ {"weekly_scoring"} :
             ViewCall(view) => (~last'.raised /\ payload'.returned # None)]_vars

\* what the code does give: build_matchups_df and the weekly scoring view
\* raise exactly when the league has no week, the other builders and views
\* are built
NoWeekRaises ==
    [][/\ \A builder \in Builders :
             BuilderCall(builder) =>
                 (last'.raised <=> (builder = "matchups" /\ league.current_week = 0))
       /\ \A view \in Views :
             ViewCall(view) =>
                 (last'.raised <=>
                     /\ view = "weekly_scoring"
                     /\ table._data_frames[view] = None
                     /\ table._matchups = None
                     /\ league.current_week = 0)]_vars

-----------------------------------------------------------------------------
(* get_weekly_scoring: the rows of the weekly scoring view *)

MaxSlotPoints == 1

ScoringWeeks == 1..2
ScoringRosters == 1..2
\* the start_* columns of the Matchups table, in column order
StartColumns == <<"start_qb", "start_rb">>
\* df.pos.str.replace('start_', '').str.upper()
PosLabel == [start_qb |-> "QB", start_rb |-> "RB"]
\* teams[['owner_id', 'roster_id']] and users[['owner_id', 'team_name']]
OwnerOfRoster == [roster_id \in ScoringRosters |-> 10 + roster_id]
TeamNameOfOwner == [owner_id \in {11, 12} |-> IF owner_id = 11 THEN "Aces" ELSE "Bears"]

RECURSIVE SumSeq(_)
SumSeq(s) == IF s = <<>> THEN 0 ELSE Head(s) + SumSeq(Tail(s))

\* .assign(week_score = df.filter(like='start_', axis=1).sum(axis=1))
week_score(row) == SumSeq([k \in DOMAIN StartColumns |-> row[StartColumns[k]]])

\* .melt(id_vars=[roster_id, week, week_score], value_vars=start_*): one block
\* of rows per melted column, the rows of a block in the order of the table
Melt(matchups) ==
    FlatMap(LAMBDA col :
                [k \in DOMAIN matchups |->
                    [roster_id |-> matchups[k].roster_id,
                     week |-> matchups[k].week,
                     week_score |-> week_score(matchups[k]),
                     pos |-> col,
                     start_points |-> matchups[k][col]]],
            StartColumns)

\* .assign(pos = ...) and the two left merges, which keep the row order
Labelled(rows) ==
    [k \in DOMAIN rows |->
        [roster_id |-> rows[k].roster_id,
         week |-> rows[k].week,
         week_score |-> rows[k].week_score,
         pos |-> PosLabel[rows[k].pos],
         start_points |-> rows[k].start_points,
         owner_id |-> OwnerOfRoster[rows[k].roster_id],
         team_name |-> TeamNameOfOwner[OwnerOfRoster[rows[k].roster_id]]]]

\* the order of sort_values(['week', 'week_score', 'roster_id']): every key
\* ascending, the default
ComesBefore(a, b) ==
    \/ a.week < b.week
    \/ a.week = b.week /\ a.week_score < b.week_score
    \/ a.week = b.week /\ a.week_score = b.week_score /\ a.roster_id < b.roster_id

RECURSIVE sort_values(_)
\* rows with equal keys keep their order
sort_values(rows) ==
    IF rows = <<>> THEN <<>>
    ELSE LET first == Head(rows)
             rest == sort_values(Tail(rows))
         IN  SelectSeq(rest, LAMBDA r : ComesBefore(r, first))
             \o <<first>>
             \o SelectSeq(rest, LAMBDA r : ~ComesBefore(r, first))

\* the table get_weekly_scoring builds from self.df_matchups
weekly_scoring_df(matchups) == sort_values(Labelled(Melt(matchups)))

\* Matchups tables: a row per week and roster, the rosters of a week in
\* either order
MatchupsTables ==
    { [k \in 1..4 |->
          LET week == (k + 1) \div 2
              j == k - 2 * (week - 1)
              roster_id == IF swap THEN 3 - j ELSE j
          IN  [roster_id |-> roster_id, week |-> week,
               start_qb |-> qb[week][roster_id],
               start_rb |-> rb[week][roster_id]]] :
        swap \in BOOLEAN,
        qb \in [ScoringWeeks -> [ScoringRosters -> 0..MaxSlotPoints]],
        rb \in [ScoringWeeks -> [ScoringRosters -> 0..MaxSlotPoints]] }

InitScoring ==
    /\ GatewayIdle
    /\ pc = "df_matchups"
    /\ payload \in MatchupsTables
    /\ table = <<>>

\* get_weekly_scoring with nothing stored under 'weekly_scoring'
BuildWeeklyScoring ==
    /\ pc = "df_matchups"
    /\ pc' = "weekly_scoring_stored"
    /\ table' = weekly_scoring_df(payload)
    /\ UNCHANGED <<payload, gatewayVars>>

NextScoring == BuildWeeklyScoring

SpecScoring == InitScoring /\ [][NextScoring]_vars

-----------------------------------------------------------------------------
(* Claims on the weekly scoring view *)

\* C21: the rows of the weekly scoring view are ordered by week ascending,
\* within a week by the team's aggregate weekly score descending, and by
\* roster id when two teams have the same aggregate score.
C21_WeekThenScoreDescending ==
    pc = "weekly_scoring_stored" =>
        \A i, j \in DOMAIN table :
            i < j =>
                /\ table[i].week <= table[j].week
                /\ table[i].week = table[j].week =>
                      /\ table[i].week_score >= table[j].week_score
                      /\ table[i].week_score = table[j].week_score =>
                            table[i].roster_id <= table[j].roster_id

\* what the code does give: week, aggregate score and roster id all
\* ascending, and a row per week, roster and start column
WeeklyScoringAscending ==
    pc = "weekly_scoring_stored" =>
        /\ Len(table) = Len(payload) * Len(StartColumns)
        /\ \A i, j \in DOMAIN table :
              i < j =>
                  /\ table[i].week <= table[j].week
                  /\ table[i].week = table[j].week =>
                        /\ table[i].week_score <= table[j].week_score
                        /\ table[i].week_score = table[j].week_score =>
                              table[i].roster_id <= table[j].roster_id

-----------------------------------------------------------------------------
(* app.py: the league dropdown and the page dropdown *)

\* values of the league dropdown: cleared, initial, a valid league
LeagueValues == {"None", "", "league-1"}
\* values of the page dropdown
Pages == {"", "home", "roster-distribution", "weekly-scoring"}

\* html.Div()
EmptyPage == "html.Div()"

\* not value or value == ''
NoLeagueSelected(value) == value \in {"None", ""}

\* faulty variant: only the empty string clears the analyzer
update_league_analyzer_empty_string_only(value, lg, an, up) ==
    IF value = ""
    THEN [league |-> NoLeague, an |-> NewAnalyzer, fetched |-> {}]
    ELSE [league |-> pull_league_data([NoLeague EXCEPT !.alive = TRUE], up),
          an |-> NewAnalyzer,
          fetched |-> Requests("league", lg)]

\* update_league_analyzer(league_id) when the constructor returns; an absent
\* analyzer is a league that is not alive
update_league_analyzer(value, lg, an, up) ==
    IF NoLeagueSelected(value)
    THEN [league |-> NoLeague, an |-> NewAnalyzer, fetched |-> {}]
    ELSE [league |-> pull_league_data([NoLeague EXCEPT !.alive = TRUE], up),
          an |-> NewAnalyzer,
          fetched |-> Requests("league", lg)]

\* page_dropdown_callback(page): the children of the page container, the view
\* asked of the analyzer and the call as it ends; the weekly scoring page
\* asks for get_weekly_scoring_by_position, which the analyzer does not have
page_dropdown_callback(page, c) ==
    IF ~c.league.alive
    THEN [c |-> c, views |-> {}, children |-> EmptyPage]
    ELSE IF page = "home"
    THEN LET done == get_general_team_data(c)
         IN  [c |-> done, views |-> {"team-general"},
              children |-> IF done.raised THEN "raised" ELSE "home.layout"]
    ELSE IF page = "roster-distribution"
    THEN LET done == get_roster_distribution(c)
         IN  [c |-> done, views |-> {"roster-distribution"},
              children |-> IF done.raised THEN "raised"
                           ELSE "roster_distribution.layout"]
    ELSE IF page = "weekly-scoring"
    THEN [c |-> [c EXCEPT !.raised = TRUE], views |-> {}, children |-> "raised"]
    ELSE [c |-> c, views |-> {}, children |-> EmptyPage]

\* nothing has been asked of the page container yet
NoResponse == [page |-> "", children |-> EmptyPage, views |-> {}, built |-> {}]

\* league_dropdown_callback(value), the constructor returning
LeagueDropdownCallback(value) ==
    LET done == update_league_analyzer(value, league, table, upstream)
    IN  /\ pc' = value
        /\ league' = done.league
        /\ table' = done.an
        /\ last' = Op(done.fetched, FALSE)
        /\ UNCHANGED <<payload, upstream, today, files, watched, accessed, dayLog>>

\* league_dropdown_callback(value), get_league raising in the constructor:
\* the assignment to league_analyzer is not reached
LeagueDropdownCallbackRaises(value) ==
    /\ ~NoLeagueSelected(value)
    /\ pc' = value
    /\ last' = Op(Requests("league", league), TRUE)
    /\ UNCHANGED <<payload, table, upstream, today, files, league, watched,
                   accessed, dayLog>>

\* page_dropdown_callback(page)
PageDropdownCallback(page) ==
    LET done == page_dropdown_callback(page, Call(league, files, table))
    IN  /\ league' = done.c.league
        /\ files' = done.c.files
        /\ table' = done.c.an
        /\ last' = Op(done.c.fetched, done.c.raised)
        /\ payload' = [page |-> page, children |-> done.children,
                       views |-> done.views, built |-> done.c.built]
        /\ UNCHANGED <<pc, upstream, today, watched, accessed, dayLog>>

\* the module as imported: league_analyzer = None, the league dropdown at ''
InitApp ==
    /\ pc = ""
    /\ payload = NoResponse
    /\ table = NewAnalyzer
    /\ upstream \in [rev : {1}, leg : 0..MaxWeek]
    /\ today = 1
    /\ files = [d \in Days |-> NoFile]
    /\ league = NoLeague
    /\ watched = "none"
    /\ accessed = FALSE
    /\ last = NoOp
    /\ dayLog = NewDay

NextApp ==
    \/ \E value \in LeagueValues : LeagueDropdownCallback(value)
    \/ \E value \in LeagueValues : LeagueDropdownCallbackRaises(value)
    \/ \E page \in Pages : PageDropdownCallback(page)
    \/ NewUpstreamData

SpecApp == InitApp /\ [][NextApp]_vars

-----------------------------------------------------------------------------
(* Claims on the state with no league selected *)

\* C22: whenever no league is selected (the league dropdown is empty or None)
\* the analyzer is absent, and a page selection handled then returns an empty
\* page, asks the analyzer for no view, runs no builder, fetches nothing and
\* changes nothing, after any sequence of selections and deselections.
C22_NoLeagueNoWork ==
    /\ [](NoLeagueSelected(pc) => ~league.alive)
    /\ [][\A page \in Pages :
             (NoLeagueSelected(pc) /\ PageDropdownCallback(page)) =>
                 /\ payload'.children = EmptyPage
                 /\ payload'.views = {}
                 /\ payload'.built = {}
                 /\ last'.fetched = {}
                 /\ ~last'.raised
                 /\ league' = league
                 /\ files' = files
                 /\ table' = table]_vars

\* the roster distribution page answered with an empty page after the league
\* whose roster distribution wrote the catalog file was deselected with None
C22_Witness ==
    /\ pc = "None"
    /\ ~league.alive
    /\ payload.page = "roster-distribution"
    /\ payload.children = EmptyPage
    /\ payload.built = {}
    /\ files[today] # NoFile

-----------------------------------------------------------------------------
(* Claims on the rows of the Matchups table *)

\* the rows of the table for roster_id in week w
RowsFor(w, roster_id) ==
    {i \in DOMAIN table : table[i].week = w /\ table[i].roster_id = roster_id}

\* C23: the Matchups table has exactly one row for every raw (week, team)
\* entry of the payload, none dropped and none duplicated, entries without a
\* matchup id included.
C23_OneRowPerEntry ==
    pc = "matchups_built" =>
        /\ \A w \in DOMAIN payload :
              \A e \in RawEntries(w) : Cardinality(RowsFor(w, e.roster_id)) = 1
        /\ Len(table) = Cardinality(DOMAIN payload) * NumTeams

\* what the code does give: one row for an entry with a matchup id; for an
\* entry without one, a row per other such entry of the week (none when it is
\* the only one)
RowsPerEntry ==
    pc = "matchups_built" =>
        \A w \in DOMAIN payload :
            \A e \in RawEntries(w) :
                Cardinality(RowsFor(w, e.roster_id)) =
                    IF e.matchup_id # NoId THEN 1
                    ELSE Cardinality({o \in RawEntries(w) : o.matchup_id = NoId}) - 1

-----------------------------------------------------------------------------
(* Claims on the weeks of the cached matchups *)

\* the cached mapping, when it is not empty, has the weeks 1..current_week
KeysAreTheWeeks(lg) ==
    lg.matchups # <<>> => DOMAIN lg.matchups = 1..lg.current_week

\* C24 as stated: whenever the cached matchups mapping is non-empty its keys
\* are the weeks 1..current_week of the gateway's current league info.
C24_KeysFollowCurrentWeek == KeysAreTheWeeks(league)

\* C24: a step that puts a new non-empty mapping in the matchups cache, and
\* every refresh_data that names 'matchups', leaves it with the weeks
\* 1..current_week of the league info the gateway then holds; the keys stop
\* being those weeks only by a refresh_data that names 'league' without
\* 'matchups'.
C24_KeysAreTheWeeksOfThePull ==
    [][/\ (league'.matchups # <<>> /\ league'.matchups # league.matchups) =>
             DOMAIN league'.matchups = 1..league'.current_week
       /\ (KeysAreTheWeeks(league) /\ ~KeysAreTheWeeks(league')) =>
             /\ RefreshData(last'.data_to_refresh)
             /\ "league" \in last'.data_to_refresh
             /\ "matchups" \notin last'.data_to_refresh
       /\ (RefreshData(last'.data_to_refresh)
              /\ "matchups" \in last'.data_to_refresh) =>
             DOMAIN league'.matchups = 1..league'.current_week]_vars

\* refresh_data({'league'}) alone has changed current_week under a cached
\* mapping, which keeps the weeks it was pulled for
C24_Witness ==
    /\ last.data_to_refresh = {"league"}
    /\ league.matchups # <<>>
    /\ DOMAIN league.matchups # 1..league.current_week
    /\ league.current_week = upstream.leg

-----------------------------------------------------------------------------
(* Claims on the tables returned after a refresh *)

\* the table a builder makes of the payloads the gateway lg holds
CurrentTable(builder, lg) ==
    CASE builder = "users" -> DataFrame("users", <<lg.users>>)
      [] builder = "teams" -> DataFrame("teams", <<lg.rosters>>)
      [] builder = "rosters" ->
            DataFrame("rosters", <<lg.rosters, lg.league_info.rev>>)
      [] builder = "players" -> DataFrame("players", <<lg.players>>)
      [] builder = "matchups" ->
            DataFrame("matchups",
                      <<lg.matchups, DataFrame("players", <<lg.players>>),
                        lg.league_info.rev>>)

\* the view made of those tables
CurrentView(view, lg) ==
    CASE view = "team-general" ->
            DataFrame("team-general",
                      <<CurrentTable("teams", lg), CurrentTable("users", lg)>>)
      [] view = "roster-distribution" ->
            DataFrame("roster-distribution",
                      <<CurrentTable("rosters", lg), CurrentTable("players", lg),
                        CurrentTable("users", lg), CurrentTable("teams", lg),
                        lg.league_info.rev>>)
      [] view = "weekly_scoring" ->
            DataFrame("weekly_scoring",
                      <<CurrentTable("matchups", lg), CurrentTable("teams", lg),
                        CurrentTable("users", lg)>>)

\* C25: every table read through df_rosters, df_teams, df_users, df_matchups
\* and every view returned by the analyzer is the table that would be built
\* from the payloads the gateway holds when the call returns, also after
\* refresh_data re-pulled an entity the table depends on.
C25_ReturnedTablesAreCurrent ==
    [][/\ \A builder \in Builders \ {"players"} :
             (PropertyRead(builder) /\ ~last'.raised) =>
                 payload'.returned = CurrentTable(builder, league')
       /\ \A view \in Views :
             (ViewCall(view) /\ ~last'.raised) =>
                 payload'.returned = CurrentView(view, league')]_vars

\* what the code does give: a builder run returns the table of the current
\* payloads (for the Matchups table, with the Players table the analyzer
\* holds), and a property or a view of an analyzer with nothing stored is
\* made of the current payloads
BuiltTablesAreCurrent ==
    [][/\ \A builder \in Builders \ {"matchups"} :
             (BuilderCall(builder) /\ ~last'.raised) =>
                 payload'.returned = CurrentTable(builder, league')
       /\ (BuilderCall("matchups") /\ ~last'.raised) =>
             payload'.returned =
                 DataFrame("matchups", <<league'.matchups, table'._players,
                                         league'.league_info.rev>>)
       /\ \A builder \in Builders :
             (PropertyRead(builder) /\ table = NewAnalyzer /\ ~last'.raised) =>
                 payload'.returned = CurrentTable(builder, league')
       /\ \A view \in Views :
             (ViewCall(view) /\ table = NewAnalyzer /\ ~last'.raised) =>
                 payload'.returned = CurrentView(view, league')]_vars

====
